---- MODULE Spec2Model ----
(***************************************************************************)
(* GroupEstimate (src/apputil.py): a group-based estimator.  fit() builds  *)
(* a table of per-group means or medians keyed by the feature columns and, *)
(* optionally, a coarser table keyed by a single column; predict() looks   *)
(* each row up in the first table, then in the second, and otherwise       *)
(* yields NaN.                                                             *)
(*                                                                         *)
(* Numbers are exact rationals [num, den] in lowest terms; NaN is the      *)
(* record with den = 0.  A pandas Series is a record [none, kind, names,   *)
(* data]: kind tells a flat Index (labels are scalars, written here as     *)
(* 1-tuples) from a MultiIndex (labels are tuples).                        *)
(***************************************************************************)
EXTENDS Integers, Sequences, FiniteSets

VARIABLES estimate, group_estimates, default_category, default_estimates,
          call, train, rejected

est == <<estimate, group_estimates, default_category, default_estimates>>
vars == <<estimate, group_estimates, default_category, default_estimates, call, train,
          rejected>>

\* ---------------------------------------------------------------- bounds
\* Rows of a training table: in the life-cycle specification (any number of
\* fit calls), in the fit-once specification, and in the fit-only one.
MaxRefitRows == 1
MaxRows == 2
MaxFitRows == 3
\* Rows of a prediction batch.
MaxPredRows == 2
\* Rows of the training table and of the prediction batch together, in the
\* fit-once specification.
MaxCaseRows == 4

\* --------------------------------------------------------------- values
ColNames == {"a", "b", "c"}
Vals == {"u", "v"}
TargetNums == {1, 2}
Modes == {"mean", "median"}
None == "None"

NaN == [num |-> 0, den |-> 0]
Num(n) == [num |-> n, den |-> 1]
isna(v) == v.den = 0

RECURSIVE GCD(_, _)
GCD(m, n) == IF n = 0 THEN m ELSE GCD(n, m % n)

\* n / d as a number (d > 0, n >= 0)
Div(n, d) == LET g == GCD(n, d) IN [num |-> n \div g, den |-> d \div g]

Range(s) == {s[i] : i \in 1..Len(s)}
SeqsUpTo(S, n) == UNION {[1..k -> S] : k \in 0..n}

\* position of column name c in the column list cols
ColPos(cols, c) == CHOOSE j \in 1..Len(cols) : cols[j] = c

NoneSeries == [none |-> TRUE, kind |-> "Index", names |-> <<>>, data |-> <<>>]

\* ------------------------------------------------------ aggregation
RECURSIVE SumSeq(_)
SumSeq(s) == IF s = <<>> THEN 0 ELSE Head(s) + SumSeq(Tail(s))

RECURSIVE Insert(_, _)
Insert(x, s) ==
    IF s = <<>> THEN <<x>>
    ELSE IF x <= Head(s) THEN <<x>> \o s
    ELSE <<Head(s)>> \o Insert(x, Tail(s))

RECURSIVE Sorted(_)
Sorted(s) == IF s = <<>> THEN <<>> ELSE Insert(Head(s), Sorted(Tail(s)))

mean(s) == Div(SumSeq(s), Len(s))

\* a median that takes the lower middle value of an even count
median_lower(s) == Num(Sorted(s)[(Len(s) + 1) \div 2])

median(s) ==
    LET t == Sorted(s)
        n == Len(s)
    IN  IF n % 2 = 1 THEN Num(t[(n + 1) \div 2])
        ELSE Div(t[n \div 2] + t[n \div 2 + 1], 2)

Aggregate(how, s) == IF how = "mean" THEN mean(s) ELSE median(s)

\* the tuple of row i of table X in the columns `by`
KeyOf(X, i, by) == [j \in 1..Len(by) |-> X.rows[i][ColPos(X.columns, by[j])]]

\* the targets of the rows of X whose key is k, in row order
RECURSIVE GroupTargets(_, _, _, _, _)
GroupTargets(X, y, by, k, i) ==
    IF i > Len(X.rows) THEN <<>>
    ELSE (IF KeyOf(X, i, by) = k THEN <<y[i].num>> ELSE <<>>)
         \o GroupTargets(X, y, by, k, i + 1)

\* df.groupby(by, observed=True)[target].mean() / .median(): one label per
\* distinct key; a single grouping column gives a flat Index.
groupby(X, y, by, how) ==
    LET keys == {KeyOf(X, i, by) : i \in 1..Len(X.rows)}
    IN  [none  |-> FALSE,
         kind  |-> IF Len(by) = 1 THEN "Index" ELSE "MultiIndex",
         names |-> by,
         data  |-> [k \in keys |-> Aggregate(how, GroupTargets(X, y, by, k, 1))]]

\* ------------------------------------------------------ index lookups
\* `key in series.index` for a tuple key: a MultiIndex holds tuples, a flat
\* Index holds scalars, and a tuple equals no scalar.
ContainsKey(series, key) ==
    IF series.kind = "MultiIndex" THEN key \in DOMAIN series.data ELSE FALSE

\* `value in series.index` for a scalar value and a flat Index.
ContainsValue(series, value) ==
    series.kind = "Index" /\ <<value>> \in DOMAIN series.data

\* ---------------------------------------------------------------- calls
\* call: the call in progress or just finished, with its arguments and its
\* result.  train: the arguments of the last fit that succeeded.  rejected:
\* a fit has been rejected and none has succeeded yet.
NoCall == [op |-> "none"]
NoTrain == [none |-> TRUE]

\* GroupEstimate(estimate): the constructor accepts "mean" and "median" only.
Init ==
    /\ estimate \in Modes
    /\ group_estimates = NoneSeries
    /\ default_category = None
    /\ default_estimates = NoneSeries
    /\ call = NoCall
    /\ train = NoTrain
    /\ rejected = FALSE

FitCall(X, y, dc, outcome, warned) ==
    [op |-> "fit", X |-> X, y |-> y, dc |-> dc, outcome |-> outcome,
     warned |-> warned, refit |-> ~group_estimates.none,
     had_fallback |-> ~default_estimates.none]

\* a validation that runs after the fallback column has been stored
Raise_after_assignment(X, y, dc, outcome) ==
    /\ call' = FitCall(X, y, dc, outcome, FALSE)
    /\ rejected' = train.none
    /\ default_category' = dc
    /\ UNCHANGED <<estimate, group_estimates, default_estimates, train>>

\* Lines 42-47: the validation raises before anything is assigned.
Raise(X, y, dc, outcome) ==
    /\ call' = FitCall(X, y, dc, outcome, FALSE)
    /\ rejected' = train.none
    /\ UNCHANGED <<est, train>>

\* a fallback table that is rebuilt when asked for and otherwise kept
FallbackEstimates_kept(X, y, dc) ==
    IF dc # None /\ dc \in Range(X.columns)
    THEN groupby(X, y, <<dc>>, estimate)
    ELSE default_estimates

\* Lines 63-80: the new value of default_estimates.
FallbackEstimates(X, y, dc) ==
    IF dc # None /\ dc \in Range(X.columns)
    THEN groupby(X, y, <<dc>>, estimate)
    ELSE NoneSeries

fit(X, y, dc) ==
    /\ call.op = "none"
    /\ IF ~X.isDF THEN Raise(X, y, dc, "TypeError")
       ELSE IF Len(X.rows) # Len(y) \/ \E i \in 1..Len(y) : isna(y[i])
       THEN Raise(X, y, dc, "InvalidInput")
       ELSE /\ default_category' = dc
            /\ group_estimates' = groupby(X, y, X.columns, estimate)
            /\ default_estimates' = FallbackEstimates(X, y, dc)
            /\ call' = FitCall(X, y, dc, "ok",
                               dc # None /\ dc \notin Range(X.columns))
            /\ train' = [none |-> FALSE, X |-> X, y |-> y, dc |-> dc]
            /\ rejected' = FALSE
            /\ UNCHANGED estimate

Return ==
    /\ call.op # "none"
    /\ call' = NoCall
    /\ UNCHANGED <<est, train, rejected>>

\* ------------------------------------------------------------ predict
DataFrame(cols, rows) == [isDF |-> TRUE, columns |-> cols, rows |-> rows]
List(rows) == [isDF |-> FALSE, columns |-> <<>>, rows |-> rows]

\* X_df[expected_cols]: the same rows with the columns in the expected order
Reindex(X_df, expected_cols) ==
    DataFrame(expected_cols,
              [i \in 1..Len(X_df.rows) |-> KeyOf(X_df, i, expected_cols)])

\* a reconciliation that accepts the same names in another order as they come
Reconcile_unordered(X_) ==
    LET expected_cols == group_estimates.names
    IN  IF ~X_.isDF THEN
            IF \E i \in 1..Len(X_.rows) : Len(X_.rows[i]) # Len(expected_cols)
            THEN [error |-> "ShapeMismatch", X_df |-> X_]
            ELSE [error |-> "", X_df |-> DataFrame(expected_cols, X_.rows)]
        ELSE IF Range(X_.columns) = Range(expected_cols) THEN [error |-> "", X_df |-> X_]
        ELSE [error |-> "SchemaMismatch", X_df |-> X_]

\* Lines 100-114: the frame whose rows predict() resolves, or the error raised:
\* a list becomes a frame with the fitted column names (its rows must have
\* that many values); a frame with the fitted names in another order is
\* reordered; a frame with another set of names is refused.
Reconcile(X_) ==
    LET expected_cols == group_estimates.names
    IN  IF ~X_.isDF THEN
            IF \E i \in 1..Len(X_.rows) : Len(X_.rows[i]) # Len(expected_cols)
            THEN [error |-> "ShapeMismatch", X_df |-> X_]
            ELSE [error |-> "", X_df |-> DataFrame(expected_cols, X_.rows)]
        ELSE IF X_.columns = expected_cols THEN [error |-> "", X_df |-> X_]
        ELSE IF Range(X_.columns) = Range(expected_cols)
             THEN [error |-> "", X_df |-> Reindex(X_, expected_cols)]
        ELSE [error |-> "SchemaMismatch", X_df |-> X_]

\* a resolution that reads the fallback value from the first column
Resolve_first_column(X_df, i) ==
    LET row == X_df.rows[i]
        key == row
    IN  IF ContainsKey(group_estimates, key)
        THEN [value |-> group_estimates.data[key], missing |-> 0]
        ELSE IF default_category # None /\ default_category \in Range(X_df.columns)
        THEN LET cat_value == row[1]
             IN  IF ~default_estimates.none /\ ContainsValue(default_estimates, cat_value)
                 THEN [value |-> default_estimates.data[<<cat_value>>], missing |-> 0]
                 ELSE [value |-> NaN, missing |-> 1]
        ELSE [value |-> NaN, missing |-> 1]

\* Lines 119-138: one row of the loop; `missing` is the increment of
\* missing_count.
Resolve(X_df, i) ==
    LET row == X_df.rows[i]
        key == row
    IN  IF ContainsKey(group_estimates, key)
        THEN [value |-> group_estimates.data[key], missing |-> 0]
        ELSE IF default_category # None /\ default_category \in Range(X_df.columns)
        THEN LET cat_value == row[ColPos(X_df.columns, default_category)]
             IN  IF ~default_estimates.none /\ ContainsValue(default_estimates, cat_value)
                 THEN [value |-> default_estimates.data[<<cat_value>>], missing |-> 0]
                 ELSE [value |-> NaN, missing |-> 1]
        ELSE [value |-> NaN, missing |-> 1]

PredictCall(X_, outcome, out, missing_count) ==
    [op |-> "predict", X_ |-> X_, outcome |-> outcome, out |-> out,
     missing_count |-> missing_count]

Missing(r) == r.missing = 1
Found(r) == r.missing = 0

\* a predict that counts the missing rows but leaves them out of the output
PredictResult_skips_missing(X_) ==
    IF group_estimates.none THEN [outcome |-> "NotFitted", out |-> <<>>, missing_count |-> 0]
    ELSE LET r == Reconcile(X_)
         IN  IF r.error # "" THEN [outcome |-> r.error, out |-> <<>>, missing_count |-> 0]
             ELSE LET results == [i \in 1..Len(r.X_df.rows) |-> Resolve(r.X_df, i)]
                      found == SelectSeq(results, Found)
                  IN  [outcome |-> "ok",
                       out |-> [i \in 1..Len(found) |-> found[i].value],
                       missing_count |-> Len(SelectSeq(results, Missing))]

\* a predict that takes the fallback table for the sign of a fitted estimator
PredictResult_fallback_guard(X_) ==
    IF default_estimates.none THEN [outcome |-> "NotFitted", out |-> <<>>, missing_count |-> 0]
    ELSE LET r == Reconcile(X_)
         IN  IF r.error # "" THEN [outcome |-> r.error, out |-> <<>>, missing_count |-> 0]
             ELSE LET results == [i \in 1..Len(r.X_df.rows) |-> Resolve(r.X_df, i)]
                  IN  [outcome |-> "ok",
                       out |-> [i \in 1..Len(results) |-> results[i].value],
                       missing_count |->
                           SumSeq([i \in 1..Len(results) |-> results[i].missing])]

\* What predict(X_) raises or returns in the current state.
PredictResult(X_) ==
    IF group_estimates.none THEN [outcome |-> "NotFitted", out |-> <<>>, missing_count |-> 0]
    ELSE LET r == Reconcile(X_)
         IN  IF r.error # "" THEN [outcome |-> r.error, out |-> <<>>, missing_count |-> 0]
             ELSE LET results == [i \in 1..Len(r.X_df.rows) |-> Resolve(r.X_df, i)]
                  IN  [outcome |-> "ok",
                       out |-> [i \in 1..Len(results) |-> results[i].value],
                       missing_count |->
                           SumSeq([i \in 1..Len(results) |-> results[i].missing])]

\* a predict that drops a fallback column it finds no table for
predict_drops_fallback(X_) ==
    /\ call.op = "none"
    /\ LET r == PredictResult(X_)
       IN  call' = PredictCall(X_, r.outcome, r.out, r.missing_count)
    /\ default_category' = IF default_estimates.none THEN None ELSE default_category
    /\ UNCHANGED <<estimate, group_estimates, default_estimates, train, rejected>>

predict(X_) ==
    /\ call.op = "none"
    /\ LET r == PredictResult(X_)
       IN  call' = PredictCall(X_, r.outcome, r.out, r.missing_count)
    /\ UNCHANGED <<est, train, rejected>>

\* ------------------------------------------------------------- inputs
FitColumns == {<<"a">>, <<"a", "b">>}
PredictColumns == {<<"a">>, <<"b">>, <<"a", "b">>, <<"b", "a">>}
Rows(width, n) == SeqsUpTo([1..width -> Vals], n)
FitXs(n) ==
    UNION {{DataFrame(cols, rows) : rows \in Rows(Len(cols), n)} : cols \in FitColumns}
        \cup {List(<< <<"u">> >>)}
FitYs(n) == SeqsUpTo({Num(t) : t \in TargetNums} \cup {NaN}, n)
FitCategories == {None} \cup ColNames
PredictXs(n) ==
    UNION {{DataFrame(cols, rows) : rows \in Rows(Len(cols), n)} : cols \in PredictColumns}
        \cup {List(rows) : rows \in Rows(1, n) \cup Rows(2, n)}

Fit(n) ==
    /\ call.op = "none"
    /\ \E X \in FitXs(n), y \in FitYs(n), dc \in FitCategories : fit(X, y, dc)
PredictUpTo(n) ==
    /\ call.op = "none"
    /\ \E X_ \in PredictXs(n) : predict(X_)
Predict == PredictUpTo(MaxPredRows)

\* Any sequence of fit and predict calls on one estimator.
Refit == Fit(MaxRefitRows)
Next == Refit \/ Predict \/ Return
Spec == Init /\ [][Next]_vars

\* One estimator, fitted until a fit succeeds, then used for a prediction.
FitOnce == group_estimates.none /\ Fit(MaxRows)
ReturnFit == call.op = "fit" /\ Return
PredictOnce ==
    LET left == IF train.none THEN MaxPredRows ELSE MaxCaseRows - Len(train.X.rows)
    IN  PredictUpTo(IF left < MaxPredRows THEN left ELSE MaxPredRows)
NextOnce == FitOnce \/ PredictOnce \/ ReturnFit
SpecOnce == Init /\ [][NextOnce]_vars

\* fit alone, on larger training tables.
FitOnly == group_estimates.none /\ Fit(MaxFitRows)
NextFit == FitOnly \/ Return
SpecFit == Init /\ [][NextFit]_vars

\* ---------------------------------------------------------- properties
\* What the claims speak of, stated on the training data itself.

\* the training rows whose full feature tuple is t / whose column c holds v
RowsWithTuple(X, t) == {j \in 1..Len(X.rows) : X.rows[j] = t}
RowsWithValue(X, c, v) == {j \in 1..Len(X.rows) : X.rows[j][ColPos(X.columns, c)] = v}

RECURSIVE SumOver(_, _)
SumOver(y, J) ==
    IF J = {} THEN 0
    ELSE LET j == CHOOSE x \in J : TRUE IN y[j].num + SumOver(y, J \ {j})

\* the k-th smallest of the targets y[j], j in J
Smallest(y, J, k) ==
    CHOOSE m \in {y[j].num : j \in J} :
        /\ Cardinality({j \in J : y[j].num < m}) < k
        /\ Cardinality({j \in J : y[j].num <= m}) >= k

IsMeanOf(v, y, J) == v.num * Cardinality(J) = v.den * SumOver(y, J)

IsMedianOf(v, y, J) ==
    LET n == Cardinality(J)
    IN  IF n % 2 = 1 THEN v.num = v.den * Smallest(y, J, (n + 1) \div 2)
        ELSE 2 * v.num = v.den * (Smallest(y, J, n \div 2) + Smallest(y, J, n \div 2 + 1))

\* v is the mean (how = "mean") or the median of the targets of the rows J
IsAggregateOf(v, how, y, J) ==
    /\ J # {}
    /\ v.den > 0
    /\ IF how = "mean" THEN IsMeanOf(v, y, J) ELSE IsMedianOf(v, y, J)

\* series has one label per distinct tuple of X in the columns `by`, and holds
\* for each the aggregate of the targets of exactly the rows with that tuple
IsTableOf(series, how, X, y, by) ==
    /\ ~series.none
    /\ \A k \in DOMAIN series.data : \E j \in 1..Len(X.rows) : KeyOf(X, j, by) = k
    /\ \A j \in 1..Len(X.rows) : KeyOf(X, j, by) \in DOMAIN series.data
    /\ \A k \in DOMAIN series.data :
          IsAggregateOf(series.data[k], how, y,
                        {j \in 1..Len(X.rows) : KeyOf(X, j, by) = k})

FitSucceeded == call.op = "fit" /\ call.outcome = "ok"
Predicted == call.op = "predict" /\ call.outcome = "ok"

\* the feature tuple of row i of a prediction input, in the fitted column order
FeatureTuple(X_, i) ==
    IF X_.isDF
    THEN [j \in 1..Len(train.X.columns) |->
             X_.rows[i][ColPos(X_.columns, train.X.columns[j])]]
    ELSE X_.rows[i]

Seen(t) == RowsWithTuple(train.X, t) # {}
ValidFallback == train.dc # None /\ train.dc \in Range(train.X.columns)
FallbackValue(t) == t[ColPos(train.X.columns, train.dc)]
SeenValue(t) == RowsWithValue(train.X, train.dc, FallbackValue(t)) # {}

\* the input names exactly the fitted columns (a table), or has rows of the
\* fitted width (a list)
SchemaMatches(X_) ==
    IF X_.isDF THEN Range(X_.columns) = Range(train.X.columns)
    ELSE \A i \in 1..Len(X_.rows) : Len(X_.rows[i]) = Len(train.X.columns)

OneRow(X_, i) == [X_ EXCEPT !.rows = <<X_.rows[i]>>]

\* C1: predict on a row whose exact feature combination appeared in the
\* training data returns the aggregate stored for that key in the group
\* aggregate table, for any number of feature columns, any batch, with or
\* without a fallback column.
C1_ExactMatchReturnsStored ==
    Predicted =>
        \A i \in 1..Len(call.X_.rows) :
            LET t == FeatureTuple(call.X_, i)
            IN  Seen(t) => /\ i \in DOMAIN call.out
                           /\ call.out[i] = group_estimates.data[t]

\* C2: after a successful fit the keys of the group aggregate table are
\* exactly the distinct full feature tuples of the training rows (a single
\* column's label standing for its 1-tuple), and each value is the mean or the
\* median (midpoint average for an even count) of the targets of exactly the
\* rows with that tuple.
C2_GroupTableIsExact ==
    FitSucceeded =>
        IsTableOf(group_estimates, estimate, call.X, call.y, call.X.columns)

C2_Witness ==
    /\ FitSucceeded
    /\ estimate = "median"
    /\ Cardinality(DOMAIN group_estimates.data) = 2
    /\ \E k \in DOMAIN group_estimates.data :
          /\ Cardinality(RowsWithTuple(call.X, k)) = 2
          /\ group_estimates.data[k] = [num |-> 3, den |-> 2]

\* C3: with a valid fallback column, a row whose full combination never
\* appeared in training but whose fallback-column value did is given the
\* aggregate of the targets of all training rows sharing that value; a row
\* whose full combination did appear is given the aggregate of its own group
\* (the fallback table decides only when the exact key is absent).
C3_FallbackAggregate ==
    Predicted /\ ValidFallback =>
        \A i \in 1..Len(call.X_.rows) :
            LET t == FeatureTuple(call.X_, i)
            IN  /\ i \in DOMAIN call.out
                /\ ~Seen(t) /\ SeenValue(t) =>
                      IsAggregateOf(call.out[i], estimate, train.y,
                          RowsWithValue(train.X, train.dc, FallbackValue(t)))
                /\ Seen(t) =>
                      IsAggregateOf(call.out[i], estimate, train.y,
                          RowsWithTuple(train.X, t))

C3_Witness ==
    /\ Predicted
    /\ ValidFallback
    /\ train.dc = "b"
    /\ \E i \in 1..Len(call.X_.rows) :
          /\ ~Seen(FeatureTuple(call.X_, i))
          /\ Cardinality(RowsWithValue(train.X, "b", FallbackValue(FeatureTuple(call.X_, i)))) = 2
          /\ call.out[i] = [num |-> 3, den |-> 2]

C5_NotFittedIffNoSuccessfulFit ==
    call.op = "predict" => (call.outcome = "NotFitted" <=> train.none)

C5_Witness ==
    /\ call.op = "predict"
    /\ call.outcome = "NotFitted"
    /\ rejected

\* C6: a fit call rejected with InvalidInput leaves the mode, the group
\* aggregate table, the fallback column and the fallback table as they were.
C6_RejectedFitChangesNothing ==
    [][call'.op = "fit" /\ call'.outcome = "InvalidInput" /\ call.op = "none"
         => UNCHANGED est]_vars

C6_Witness ==
    /\ call.op = "fit"
    /\ call.outcome = "InvalidInput"
    /\ call.refit
    /\ call.had_fallback
    /\ call.dc = None
    /\ ~default_estimates.none
    /\ default_category # None

\* C7: after a successful fit the group aggregate table, the fallback column
\* and the fallback table are those of the arguments of that fit alone: the
\* fallback table exists exactly when that fit named a feature column, and is
\* then the table of that column.
C7_FitReplacesState ==
    FitSucceeded =>
        /\ IsTableOf(group_estimates, estimate, call.X, call.y, call.X.columns)
        /\ group_estimates.names = call.X.columns
        /\ default_category = call.dc
        /\ IF call.dc # None /\ call.dc \in Range(call.X.columns)
           THEN IsTableOf(default_estimates, estimate, call.X, call.y, <<call.dc>>)
           ELSE default_estimates = NoneSeries

C7_Witness ==
    /\ FitSucceeded
    /\ call.refit
    /\ call.had_fallback
    /\ call.dc = None
    /\ default_estimates.none
    /\ Len(call.X.rows) > 0

\* C8: a fit with a fallback column that is no feature column succeeds, builds
\* the group table and no fallback table, and a later predict returns the
\* stored aggregate for a seen combination and NaN for an unseen one.
C8_InvalidFallbackDegrades ==
    /\ call.op = "fit" /\ call.X.isDF /\ Len(call.X.rows) = Len(call.y)
           /\ (\A i \in 1..Len(call.y) : ~isna(call.y[i]))
           /\ call.dc # None /\ call.dc \notin Range(call.X.columns)
        => /\ call.outcome = "ok"
           /\ IsTableOf(group_estimates, estimate, call.X, call.y, call.X.columns)
           /\ default_estimates.none
    /\ call.op = "predict" /\ ~train.none /\ train.dc # None /\ ~ValidFallback
           /\ SchemaMatches(call.X_)
        => /\ call.outcome = "ok"
           /\ \A i \in 1..Len(call.X_.rows) :
                 LET t == FeatureTuple(call.X_, i)
                 IN  /\ i \in DOMAIN call.out
                     /\ call.out[i] = IF Seen(t) THEN group_estimates.data[t] ELSE NaN

\* C9: a table naming the fitted columns in any order gets the predictions of
\* the same rows given in the fitted order; a table with another set of
\* column names is refused with SchemaMismatch.
C9_ColumnOrderIsIrrelevant ==
    call.op = "predict" /\ ~train.none /\ call.X_.isDF =>
        LET canonical == [i \in 1..Len(call.X_.rows) |-> FeatureTuple(call.X_, i)]
        IN  IF Range(call.X_.columns) = Range(train.X.columns)
            THEN /\ call.outcome = "ok"
                 /\ call.out = PredictResult(List(canonical)).out
                 /\ call.out = PredictResult(DataFrame(train.X.columns, canonical)).out
            ELSE call.outcome = "SchemaMismatch"

C9_Witness ==
    /\ Predicted
    /\ call.X_.columns = <<"b", "a">>
    /\ ValidFallback
    /\ Len(call.out) = 2
    /\ call.out[1] # NaN
    /\ call.out[2] = NaN
    /\ ~Seen(call.X_.rows[1])
    /\ call.X_.rows[1][1] # call.X_.rows[1][2]

\* C10: predict, whether it returns or fails, leaves the mode, the group
\* aggregate table, the fallback column and the fallback table as they were.
C10_PredictChangesNothing ==
    [][call'.op = "predict" => UNCHANGED est]_vars

C10_Witness ==
    /\ call.op = "predict"
    /\ call.outcome = "SchemaMismatch"
    /\ default_category # None
    /\ default_estimates.none
====
